---------------------------- MODULE Spec2Model ----------------------------
(***************************************************************************)
(* Model of orthorec.py: the chunk pipeline of orthorec() (lines 123-145). *)
(* The scheduler thread walks k = 0..nchunk, submits gpu_copy (transfer)   *)
(* and recon (compute) to a ThreadPoolExecutor(2), joins both and adds the *)
(* compute result to the accumulator obj_gpu.  The two worker threads of   *)
(* the pool start and finish the submitted tasks in any interleaving.      *)
(*                                                                         *)
(* A projection is its index 0..N-1 in the stack.  A device buffer is the  *)
(* index range [lo, hi) of the slice it was copied from.  The contribution *)
(* of a chunk to the accumulator is exact and additive: obj_gpu.num[p]     *)
(* counts how often the backprojection of projection p has been added,     *)
(* obj_gpu.den is the divisor applied by line 145.                         *)
(***************************************************************************)
EXTENDS Integers, Sequences, FiniteSets

\* ---------------------------------------------------------------- bounds
\* Small stacks are run with every chunk size 1..MaxPChunk; the stacks of
\* ScenarioCounts are run with the chunk size the source fixes (line 84).
MaxProj == 8
MaxPChunk == 7
\* backprojection is applied to every binned detector of width 1..MaxDet
MaxDet == 7
\* fbp_filter is applied to every row length 1..MaxRow
MaxRow == 16
\* shapes: binning levels 0..MaxLevel, detectors of 1..MaxUnits times 2^level
MaxLevel == 3
MaxUnits == 4

\* ------------------------------------------------------ program constants
pchunk_default == 64      \* line 84: pchunk = 64
max_workers == 2          \* line 128: ThreadPoolExecutor(2)
nslots == 2               \* lines 126-127: [None]*2
ncenter == 80             \* line 92: len(arange(center-20, center+20, 0.5))

ScenarioCounts ==
    {2 * pchunk_default, 2 * pchunk_default + 1, 3 * pchunk_default + 1}

ChunkSizes == (1..MaxPChunk) \cup {pchunk_default}

VARIABLES
    N,          \* data.shape[0], the total projection count
    pchunk,     \* the projection chunk size
    k,          \* the loop variable of line 129
    pc,         \* the scheduler's position in the loop body
    data_gpu,   \* line 126: the two data slots
    theta_gpu,  \* line 127: the two angle slots
    t2,         \* the future of the last submitted gpu_copy (its step) or NoTask
    t3,         \* the future of the last submitted recon (its step) or NoTask
    futures,    \* the futures of the pool that have not been joined yet
    obj_gpu,    \* the accumulator
    trace,      \* history: what the scheduler thread did, in order
    sig,        \* signal_handler has run (SIGINT or SIGTSTP was delivered)
    mempool,    \* cp._default_memory_pool: the calls of free_all_blocks and
                \* the allocations they have given back to the device
    written,    \* line 152: the number of images written so far
    calc        \* the argument and result of a function applied on its own

vars == <<N, pchunk, k, pc, data_gpu, theta_gpu, t2, t3, futures, obj_gpu, trace,
          sig, mempool, written, calc>>

\* the state of the pipeline loop
loopvars == <<N, pchunk, k, pc, data_gpu, theta_gpu, t2, t3, futures, obj_gpu,
              trace>>

\* the state outside the pipeline loop
restvars == <<sig, mempool, written, calc>>

\* ----------------------------------------------------------------- helpers
NoTask == -1
NoSlot == -1
NoChunk == -1
NoBuf == [lo |-> -1, hi |-> -1]          \* None

Min(a, b) == IF a < b THEN a ELSE b

\* int(cp.ceil(a / b)) for positive b
CeilDiv(a, b) == (a + b - 1) \div b

\* line 125
nchunkOf(n, c) == CeilDiv(n, c)
nchunk == nchunkOf(N, pchunk)

\* the slice without the min: the last chunk runs past the stack
SliceOf_NoClip(kk, n, c) == [lo |-> kk * c, hi |-> (kk + 1) * c]

\* line 133: the slice [k*pchunk, min((k+1)*pchunk, data.shape[0])) of step kk
SliceOf(kk, n, c) == [lo |-> kk * c, hi |-> Min((kk + 1) * c, n)]

\* the projections held by a buffer
Projs(buf) == {p \in 0..(buf.hi - 1) : p >= buf.lo /\ buf.lo >= 0}

\* the index of the chunk a buffer holds (buffers start at k*pchunk)
ChunkOf(buf, c) == IF buf = NoBuf THEN NoChunk ELSE buf.lo \div c

\* the transfer guard off by one: k <= nchunk
CopyGuard_OffByOne(kk, nch) == kk <= nch

\* line 131 / 140: if(k < nchunk)
CopyGuard(kk, nch) == kk < nch

\* line 135 / 142: if(k > 1)
ReconGuard(kk, nch) == kk > 1

\* line 141: data_gpu[k % 2], theta_gpu[k % 2] = ...
CopySlot(kk) == kk % nslots

\* the compute task reading the slot of the step's own parity
ReconSlot_SameParity(kk) == kk % nslots

\* lines 136-137: data_gpu[(k-1) % 2], theta_gpu[(k-1) % 2]
ReconSlot(kk) == (kk - 1) % nslots

\* lines 14-21, 70-76: recon returns the backprojection of the chunk it is
\* given; obj_gpu += it adds one contribution per projection of the chunk
AddContribution(num, buf) ==
    [p \in DOMAIN num |-> IF p \in Projs(buf) THEN num[p] + 1 ELSE num[p]]

Event(ev, step, slot, chunk) ==
    [ev |-> ev, step |-> step, slot |-> slot, chunk |-> chunk]

Fut(fn, step, slot, data, theta, state) ==
    [fn |-> fn, step |-> step, slot |-> slot, data |-> data, theta |-> theta,
     state |-> state]

\* --------------------------------------------------------------------- Init
\* lines 123-127
Init ==
    /\ \/ N \in 1..MaxProj /\ pchunk \in 1..MaxPChunk
       \/ N \in ScenarioCounts /\ pchunk = pchunk_default
    /\ k = 0
    /\ pc = "submit_copy"
    /\ data_gpu = [i \in 0..(nslots - 1) |-> NoBuf]
    /\ theta_gpu = [i \in 0..(nslots - 1) |-> NoBuf]
    /\ t2 = NoTask
    /\ t3 = NoTask
    /\ futures = {}
    /\ obj_gpu = [num |-> [p \in 0..(N - 1) |-> 0], den |-> 1]
    /\ trace = <<>>
    /\ sig = FALSE
    /\ mempool = [calls |-> 0, returned |-> {}]
    /\ written = 0
    /\ calc = [fn |-> "none"]

\* ---------------------------------------------------------- the scheduler
\* lines 131-133: submit gpu_copy for chunk k
SubmitCopy ==
    /\ pc = "submit_copy"
    /\ pc' = "submit_recon"
    /\ IF CopyGuard(k, nchunk)
       THEN /\ futures' = futures \cup
                  {Fut("gpu_copy", k, NoSlot, SliceOf(k, N, pchunk),
                       SliceOf(k, N, pchunk), "queued")}
            /\ t2' = k
            /\ trace' = Append(trace, Event("submit_copy", k, NoSlot, k))
       ELSE UNCHANGED <<futures, t2, trace>>
    /\ UNCHANGED <<N, pchunk, k, data_gpu, theta_gpu, t3, obj_gpu>>
    /\ UNCHANGED restvars

\* recon given the angles of the other slot
SubmitRecon_ThetaOfOtherSlot ==
    /\ pc = "submit_recon"
    /\ pc' = "join_copy"
    /\ IF ReconGuard(k, nchunk)
       THEN /\ futures' = futures \cup
                  {Fut("recon", k, ReconSlot(k), data_gpu[ReconSlot(k)],
                       theta_gpu[CopySlot(k)], "queued")}
            /\ t3' = k
            /\ trace' = Append(trace,
                  Event("submit_recon", k, ReconSlot(k),
                        ChunkOf(data_gpu[ReconSlot(k)], pchunk)))
       ELSE UNCHANGED <<futures, t3, trace>>
    /\ UNCHANGED <<N, pchunk, k, data_gpu, theta_gpu, t2, obj_gpu>>
    /\ UNCHANGED restvars

\* lines 135-137: submit recon on the slots of parity (k-1) % 2; the
\* arguments are evaluated when the task is submitted
SubmitRecon ==
    /\ pc = "submit_recon"
    /\ pc' = "join_copy"
    /\ IF ReconGuard(k, nchunk)
       THEN /\ futures' = futures \cup
                  {Fut("recon", k, ReconSlot(k), data_gpu[ReconSlot(k)],
                       theta_gpu[ReconSlot(k)], "queued")}
            /\ t3' = k
            /\ trace' = Append(trace,
                  Event("submit_recon", k, ReconSlot(k),
                        ChunkOf(data_gpu[ReconSlot(k)], pchunk)))
       ELSE UNCHANGED <<futures, t3, trace>>
    /\ UNCHANGED <<N, pchunk, k, data_gpu, theta_gpu, t2, obj_gpu>>
    /\ UNCHANGED restvars

\* the scheduler going on without t2.result(): no join, nothing stored
JoinCopy_NoWait ==
    /\ pc = "join_copy"
    /\ pc' = "join_recon"
    /\ UNCHANGED <<N, pchunk, k, data_gpu, theta_gpu, t2, t3, futures, obj_gpu,
                   trace>>
    /\ UNCHANGED restvars

\* lines 140-141: t2.result() blocks until the transfer is done, then the
\* slots of parity k % 2 are rebound to its result
JoinCopy ==
    /\ pc = "join_copy"
    /\ IF CopyGuard(k, nchunk)
       THEN \E f \in futures :
              /\ f.fn = "gpu_copy" /\ f.step = t2 /\ f.state = "done"
              /\ data_gpu' = [data_gpu EXCEPT ![CopySlot(k)] = f.data]
              /\ theta_gpu' = [theta_gpu EXCEPT ![CopySlot(k)] = f.theta]
              /\ futures' = futures \ {f}
              /\ trace' = Append(trace,
                    Event("store", k, CopySlot(k), ChunkOf(f.data, pchunk)))
       ELSE UNCHANGED <<data_gpu, theta_gpu, futures, trace>>
    /\ pc' = "join_recon"
    /\ UNCHANGED <<N, pchunk, k, t2, t3, obj_gpu>>
    /\ UNCHANGED restvars

\* the scheduler going on without t3.result(): no join, nothing added
JoinRecon_NoWait ==
    /\ pc = "join_recon"
    /\ IF k < nchunk
       THEN k' = k + 1 /\ pc' = "submit_copy"
       ELSE k' = k /\ pc' = "divide"
    /\ UNCHANGED <<N, pchunk, data_gpu, theta_gpu, t2, t3, futures, obj_gpu,
                   trace>>
    /\ UNCHANGED restvars

\* the loop running one step too far: range(0, nchunk+2)
JoinRecon_ExtraStep ==
    /\ pc = "join_recon"
    /\ IF ReconGuard(k, nchunk)
       THEN \E f \in futures :
              /\ f.fn = "recon" /\ f.step = t3 /\ f.state = "done"
              /\ obj_gpu' = [obj_gpu EXCEPT
                                !.num = AddContribution(obj_gpu.num, f.data)]
              /\ futures' = futures \ {f}
              /\ trace' = Append(trace,
                    Event("add", k, f.slot, ChunkOf(f.data, pchunk)))
       ELSE UNCHANGED <<obj_gpu, futures, trace>>
    /\ IF k <= nchunk
       THEN k' = k + 1 /\ pc' = "submit_copy"
       ELSE k' = k /\ pc' = "divide"
    /\ UNCHANGED <<N, pchunk, data_gpu, theta_gpu, t2, t3>>
    /\ UNCHANGED restvars

\* lines 142-143 and the loop header of line 129: t3.result() blocks until
\* the compute task is done, its result is added to obj_gpu; then the next
\* k, or the end of the with block after k = nchunk
JoinRecon ==
    /\ pc = "join_recon"
    /\ IF ReconGuard(k, nchunk)
       THEN \E f \in futures :
              /\ f.fn = "recon" /\ f.step = t3 /\ f.state = "done"
              /\ obj_gpu' = [obj_gpu EXCEPT
                                !.num = AddContribution(obj_gpu.num, f.data)]
              /\ futures' = futures \ {f}
              /\ trace' = Append(trace,
                    Event("add", k, f.slot, ChunkOf(f.data, pchunk)))
       ELSE UNCHANGED <<obj_gpu, futures, trace>>
    /\ IF k < nchunk
       THEN k' = k + 1 /\ pc' = "submit_copy"
       ELSE k' = k /\ pc' = "divide"
    /\ UNCHANGED <<N, pchunk, data_gpu, theta_gpu, t2, t3>>
    /\ UNCHANGED restvars

\* line 145: obj_gpu /= data.shape[0]
Divide ==
    /\ pc = "divide"
    /\ futures = {}       \* line 128: leaving the with block joins the pool
    /\ obj_gpu' = [obj_gpu EXCEPT !.den = N]
    /\ pc' = "done"
    /\ UNCHANGED <<N, pchunk, k, data_gpu, theta_gpu, t2, t3, futures, trace>>
    /\ UNCHANGED restvars

\* ------------------------------------------------------ the pool's workers
Running == {f \in futures : f.state = "running"}
Queued == {f \in futures : f.state = "queued"}

SetState(f, s) == (futures \ {f}) \cup {[f EXCEPT !.state = s]}

\* a free worker thread of the pool takes a queued task
WorkerStart ==
    /\ Cardinality(Running) < max_workers
    /\ \E f \in Queued : futures' = SetState(f, "running")
    /\ UNCHANGED <<N, pchunk, k, pc, data_gpu, theta_gpu, t2, t3, obj_gpu, trace>>
    /\ UNCHANGED restvars

\* lines 63-67: gpu_copy returns the device copies of its slice
WorkerFinishCopy ==
    /\ \E f \in Running : f.fn = "gpu_copy" /\ futures' = SetState(f, "done")
    /\ UNCHANGED <<N, pchunk, k, pc, data_gpu, theta_gpu, t2, t3, obj_gpu, trace>>
    /\ UNCHANGED restvars

\* recon adding its result to obj_gpu itself, in the worker thread
WorkerFinishRecon_Accumulates ==
    /\ \E f \in Running :
          /\ f.fn = "recon"
          /\ futures' = SetState(f, "done")
          /\ obj_gpu' = [obj_gpu EXCEPT
                            !.num = AddContribution(obj_gpu.num, f.data)]
    /\ UNCHANGED <<N, pchunk, k, pc, data_gpu, theta_gpu, t2, t3, trace>>
    /\ UNCHANGED restvars

\* lines 70-76: recon returns a new array obj; it does not touch obj_gpu
WorkerFinishRecon ==
    /\ \E f \in Running : f.fn = "recon" /\ futures' = SetState(f, "done")
    /\ UNCHANGED <<N, pchunk, k, pc, data_gpu, theta_gpu, t2, t3, obj_gpu, trace>>
    /\ UNCHANGED restvars

\* ------------------------------------------------- device allocations
\* An allocation is named after the array that owns it.  The arrays the
\* model follows are the trial centers (line 92), the reference fields
\* (lines 104-107), the accumulator (line 123) and the chunk buffers
\* (lines 64-66); the temporaries of recon are left out.
Alloc(kind, id) == [kind |-> kind, id |-> id]

FixedAllocs ==
    {Alloc("center", 0), Alloc("dark_gpu", 0), Alloc("flat_gpu", 0),
     Alloc("obj_gpu", 0)}

ChunkAllocs(S) == {Alloc("chunk", j) : j \in S}

\* the chunks whose buffers are referenced from a slot or from the result of
\* a transfer task
HeldChunks ==
    {ChunkOf(data_gpu[s], pchunk) : s \in {x \in DOMAIN data_gpu : data_gpu[x] # NoBuf}}
    \cup {ChunkOf(theta_gpu[s], pchunk) : s \in {x \in DOMAIN theta_gpu : theta_gpu[x] # NoBuf}}
    \cup {ChunkOf(f.data, pchunk) :
            f \in {g \in futures : g.fn = "gpu_copy" /\ g.state \in {"running", "done"}}}

\* the chunks whose buffers have been allocated at some time
EverChunks == HeldChunks \cup {trace[i].chunk : i \in {j \in DOMAIN trace : trace[j].ev = "store"}}

\* the allocations live arrays hold: none once orthorec's frame is gone
Live ==
    IF pc = "unwound" THEN {} ELSE FixedAllocs \cup ChunkAllocs(HeldChunks)

\* the allocations of dead arrays: the pool keeps their blocks until
\* free_all_blocks gives them back
Cached == (FixedAllocs \cup ChunkAllocs(EverChunks)) \ (Live \cup mempool.returned)

\* what the process holds on the device
Outstanding == Live \cup Cached

\* cp._default_memory_pool.free_all_blocks(): releases the free blocks of
\* the pool, not the blocks of live arrays
free_all_blocks(pool) ==
    [calls |-> pool.calls + 1, returned |-> pool.returned \cup Cached]

\* --------------------------------------------------------------- output
\* lines 152-155: one image per trial center
WriteTiff ==
    /\ pc = "done"
    /\ written < ncenter
    /\ written' = written + 1
    /\ UNCHANGED <<loopvars, sig, mempool, calc>>

\* line 158, and the return of orthorec
FreeAll ==
    /\ pc = "done"
    /\ written = ncenter
    /\ mempool' = free_all_blocks(mempool)
    /\ pc' = "end"
    /\ UNCHANGED <<N, pchunk, k, data_gpu, theta_gpu, t2, t3, futures, obj_gpu,
                   trace, sig, written, calc>>

\* --------------------------------------------- interruption and failure
\* the program is executing orthorec
InOrthorec ==
    pc \in {"submit_copy", "submit_recon", "join_copy", "join_recon", "divide",
            "done", "raised"}

\* the handler without its exit(): the pool is freed and the run goes on
signal_handler_NoExit ==
    /\ InOrthorec
    /\ ~sig
    /\ sig' = TRUE
    /\ mempool' = free_all_blocks(mempool)
    /\ UNCHANGED <<loopvars, written, calc>>

\* lines 161-165, registered for SIGINT and SIGTSTP by lines 185-186: the
\* handler runs in the main thread, frees the pool's free blocks and
\* raises SystemExit at the scheduler's position
signal_handler ==
    /\ InOrthorec
    /\ sig' = TRUE
    /\ mempool' = free_all_blocks(mempool)
    /\ pc' = "aborting"
    /\ UNCHANGED <<N, pchunk, k, data_gpu, theta_gpu, t2, t3, futures, obj_gpu,
                   trace, written, calc>>

\* a transfer task raises (lines 63-67)
WorkerFailCopy ==
    /\ \E f \in Running : f.fn = "gpu_copy" /\ futures' = SetState(f, "failed")
    /\ UNCHANGED <<N, pchunk, k, pc, data_gpu, theta_gpu, t2, t3, obj_gpu, trace>>
    /\ UNCHANGED restvars

\* a compute task raises (lines 70-76)
WorkerFailRecon ==
    /\ \E f \in Running : f.fn = "recon" /\ futures' = SetState(f, "failed")
    /\ UNCHANGED <<N, pchunk, k, pc, data_gpu, theta_gpu, t2, t3, obj_gpu, trace>>
    /\ UNCHANGED restvars

\* line 141: t2.result() re-raises the exception of the transfer task
JoinCopyRaises ==
    /\ pc = "join_copy"
    /\ CopyGuard(k, nchunk)
    /\ \E f \in futures : f.fn = "gpu_copy" /\ f.step = t2 /\ f.state = "failed"
    /\ pc' = "raised"
    /\ UNCHANGED <<N, pchunk, k, data_gpu, theta_gpu, t2, t3, futures, obj_gpu,
                   trace>>
    /\ UNCHANGED restvars

\* line 143: t3.result() re-raises the exception of the compute task
JoinReconRaises ==
    /\ pc = "join_recon"
    /\ ReconGuard(k, nchunk)
    /\ \E f \in futures : f.fn = "recon" /\ f.step = t3 /\ f.state = "failed"
    /\ pc' = "raised"
    /\ UNCHANGED <<N, pchunk, k, data_gpu, theta_gpu, t2, t3, futures, obj_gpu,
                   trace>>
    /\ UNCHANGED restvars

\* line 128: the exception leaves the with block, whose exit waits for the
\* tasks already submitted, and then leaves orthorec; nothing catches it
Unwind ==
    /\ pc \in {"aborting", "raised"}
    /\ Queued = {} /\ Running = {}
    /\ pc' = "unwound"
    /\ UNCHANGED <<N, pchunk, k, data_gpu, theta_gpu, t2, t3, futures, obj_gpu,
                   trace>>
    /\ UNCHANGED restvars

Next ==
    \/ SubmitCopy
    \/ SubmitRecon
    \/ JoinCopy
    \/ JoinRecon
    \/ Divide
    \/ WorkerStart
    \/ WorkerFinishCopy
    \/ WorkerFinishRecon
    \/ WriteTiff
    \/ FreeAll

Spec == Init /\ [][Next]_vars

\* every thread that can take a step eventually takes it, and every task
\* that runs comes to an end
FairSpec ==
    /\ Spec
    /\ WF_vars(SubmitCopy) /\ WF_vars(SubmitRecon)
    /\ WF_vars(JoinCopy) /\ WF_vars(JoinRecon)
    /\ WF_vars(Divide) /\ WF_vars(WriteTiff) /\ WF_vars(FreeAll)
    /\ WF_vars(WorkerStart)
    /\ WF_vars(WorkerFinishCopy) /\ WF_vars(WorkerFinishRecon)

\* the run with signals and failing tasks
NextAbort ==
    \/ Next
    \/ signal_handler
    \/ WorkerFailCopy
    \/ WorkerFailRecon
    \/ JoinCopyRaises
    \/ JoinReconRaises
    \/ Unwind

SpecAbort == Init /\ [][NextAbort]_vars

\* every thread that can take a step eventually takes it and every task
\* that runs comes to an end; nothing says that a signal arrives
FairAbort ==
    /\ WF_vars(SubmitCopy) /\ WF_vars(SubmitRecon)
    /\ WF_vars(JoinCopy \/ JoinCopyRaises) /\ WF_vars(JoinRecon \/ JoinReconRaises)
    /\ WF_vars(Divide) /\ WF_vars(WriteTiff) /\ WF_vars(FreeAll)
    /\ WF_vars(WorkerStart)
    /\ WF_vars(WorkerFinishCopy \/ WorkerFailCopy)
    /\ WF_vars(WorkerFinishRecon \/ WorkerFailRecon)
    /\ WF_vars(Unwind)

FairSpecAbort == SpecAbort /\ FairAbort

TypeOK ==
    /\ N \in 1..(4 * pchunk_default)
    /\ pchunk \in ChunkSizes
    /\ k \in 0..nchunk
    /\ pc \in {"submit_copy", "submit_recon", "join_copy", "join_recon",
               "divide", "done", "end", "raised", "aborting", "unwound"}
    /\ sig \in BOOLEAN
    /\ written \in 0..ncenter
    /\ mempool.calls \in 0..1
    /\ t2 \in {NoTask} \cup 0..nchunk
    /\ t3 \in {NoTask} \cup 0..nchunk
    /\ \A f \in futures : f.state \in {"queued", "running", "done", "failed"}
    /\ obj_gpu.den \in {1, N}

\* ------------------------------------------- the loop as a pure function
\* lines 125-143 run to completion for n projections and chunk size c: the
\* joins make the scheduler's view sequential, so the set of projections
\* whose contribution ends in the accumulator is a function of (n, c)
RECURSIVE LoopProjs(_, _, _, _, _)
LoopProjs(n, c, kk, slots, acc) ==
    IF kk > nchunkOf(n, c) THEN acc
    ELSE LET acc2 == IF ReconGuard(kk, nchunkOf(n, c))
                     THEN acc \cup Projs(slots[ReconSlot(kk)])
                     ELSE acc
             slots2 == IF CopyGuard(kk, nchunkOf(n, c))
                       THEN [slots EXCEPT ![CopySlot(kk)] = SliceOf(kk, n, c)]
                       ELSE slots
         IN  LoopProjs(n, c, kk + 1, slots2, acc2)

FinalProjs(n, c) == LoopProjs(n, c, 0, [i \in 0..(nslots - 1) |-> NoBuf], {})

\* ------------------------------------------------------- derived notions
\* the projections whose contribution the accumulator contains
Accumulated == {p \in DOMAIN obj_gpu.num : obj_gpu.num[p] > 0}

\* the positions of the trace at which the scheduler did ev
At(ev) == {i \in DOMAIN trace : trace[i].ev = ev}

\* the positions at which the scheduler did ev for chunk j
AtChunk(ev, j) == {i \in At(ev) : trace[i].chunk = j}

\* the run of the state machine and the loop as a function agree
LoopAgrees == pc = "done" => Accumulated = FinalProjs(N, pchunk)

\* ================================================================ claims

\* C1: when the pipeline loop has finished, the accumulator is the sum of
\* the contributions of ALL chunks 0..nchunk-1, each exactly once, divided
\* by the total projection count.
C1_AllChunksSummed ==
    pc = "done" =>
        obj_gpu = [num |-> [p \in 0..(N - 1) |-> 1], den |-> N]

\* C2: over a complete run every chunk index 0..nchunk-1 is materialized by
\* exactly one transfer task and afterwards consumed by exactly one compute
\* task (nchunk transfer tasks and nchunk compute tasks in all).
C2_EachChunkTransferredAndComputedOnce ==
    pc = "done" =>
        /\ Cardinality(At("submit_copy")) = nchunk
        /\ Cardinality(At("submit_recon")) = nchunk
        /\ \A j \in 0..(nchunk - 1) :
              /\ Cardinality(AtChunk("submit_copy", j)) = 1
              /\ Cardinality(AtChunk("submit_recon", j)) = 1
              /\ \A i \in AtChunk("store", j), m \in AtChunk("submit_recon", j) :
                    i < m

\* C3: for a fixed stack of N projections the set of projections whose
\* contribution the final accumulator contains is the same for every
\* positive chunk size (the sizes of ChunkSizes and N itself among them).
C3_SameProjectionsForEveryChunkSize ==
    pc = "done" =>
        \A c \in ChunkSizes \cup {N} : Accumulated = FinalProjs(N, c)

\* the chunk indices of the buffers held in the parity slots
SlotChunks ==
    {ChunkOf(data_gpu[s], pchunk) : s \in {x \in DOMAIN data_gpu : data_gpu[x] # NoBuf}}
    \cup
    {ChunkOf(theta_gpu[s], pchunk) : s \in {x \in DOMAIN theta_gpu : theta_gpu[x] # NoBuf}}

\* the chunk indices of the buffers a transfer task is producing or has
\* produced and the scheduler has not yet taken
InFlightChunks ==
    {ChunkOf(f.data, pchunk) :
        f \in {g \in futures : g.fn = "gpu_copy" /\ g.state \in {"running", "done"}}}

DeviceChunks == SlotChunks \cup InFlightChunks

\* the tasks the scheduler has issued in step s
Issued(s) ==
    {trace[i].ev : i \in {j \in At("submit_copy") \cup At("submit_recon") :
                             trace[j].step = s}}

\* step s has passed both submit statements
StepIssued(s) ==
    s < k \/ (s = k /\ pc \notin {"submit_copy", "submit_recon"})

\* C4 as claimed: the compute task for a chunk is issued exactly two steps
\* after the transfer task for that chunk.
C4_ComputeTwoStepsAfterTransfer ==
    \A i \in At("submit_recon") :
        \E j \in AtChunk("submit_copy", trace[i].chunk) :
            trace[i].step = trace[j].step + 2

\* C4 as amended: the compute task for a chunk is issued exactly one step
\* after the transfer task for that chunk (compute at step s consumes the
\* chunk transferred at step s-1).
C4_ComputeOneStepAfterTransfer ==
    \A i \in At("submit_recon") :
        /\ trace[i].chunk # NoChunk
        /\ \A j \in AtChunk("submit_copy", trace[i].chunk) :
              trace[i].step = trace[j].step + 1
        /\ AtChunk("submit_copy", trace[i].chunk) # {}

C4_Witness ==
    /\ pc = "done"
    /\ Cardinality(At("submit_recon")) >= 2

\* C5: a slot is never overwritten with a newly transferred chunk until the
\* compute task for the chunk previously held in that slot has run and has
\* finished reading it.
C5_SlotKeptUntilComputed ==
    [][\A s \in DOMAIN data_gpu :
          (data_gpu'[s] # data_gpu[s] /\ data_gpu[s] # NoBuf) =>
              /\ AtChunk("submit_recon", ChunkOf(data_gpu[s], pchunk)) # {}
              /\ \A f \in futures :
                    (f.fn = "recon" /\ f.data = data_gpu[s]) => f.state = "done"
      ]_vars

\* C6: a compute task reads a slot that was filled and joined in an earlier
\* step, a slot other than the one its own step's transfer result is stored
\* into, and under every interleaving of the workers and the scheduler the
\* buffer it holds is never the one a transfer task of its step produces.
C6_ComputeReadsEarlierStepOtherSlot ==
    /\ \A i \in At("submit_recon") :
          /\ \E j \in At("store") :
                /\ j < i
                /\ trace[j].step < trace[i].step
                /\ trace[j].slot = trace[i].slot
                /\ trace[j].chunk = trace[i].chunk
          /\ \A j \in At("store") :
                trace[j].step = trace[i].step => trace[j].slot # trace[i].slot
          /\ \A j \in At("submit_copy") :
                trace[j].step = trace[i].step => trace[j].chunk # trace[i].chunk
    /\ \A f \in futures, g \in futures :
          (f.fn = "recon" /\ g.fn = "gpu_copy") =>
              /\ f.data # NoBuf
              /\ f.data # g.data
              /\ f.theta # g.theta

C6_Witness ==
    \E f \in Running, g \in Running :
        /\ f.fn = "recon" /\ g.fn = "gpu_copy"
        /\ f.step = g.step

\* C7: only the scheduler thread writes the accumulator (each change of it
\* is the scheduler's obj_gpu += or its final division), the contributions
\* are added in strictly increasing chunk order, and each is added before
\* any task of a later step is issued.
C7_AccumulatorWrittenBySchedulerInOrder ==
    /\ [][/\ obj_gpu'.num # obj_gpu.num =>
                /\ pc = "join_recon"
                /\ trace' # trace
                /\ trace'[Len(trace')].ev = "add"
          /\ obj_gpu'.den # obj_gpu.den => (pc = "divide" /\ pc' = "done")
         ]_vars
    /\ [](\A i \in At("add"), j \in At("add") :
             i < j => trace[i].chunk < trace[j].chunk)
    /\ [](\A i \in At("submit_recon") :
             \A j \in At("submit_copy") \cup At("submit_recon") :
                 trace[j].step > trace[i].step =>
                     \E m \in At("add") :
                         m < j /\ trace[m].step = trace[i].step)

C7_Witness ==
    /\ pc = "done"
    /\ Cardinality(At("add")) >= 2

\* C8: no task of a later step is submitted before both tasks of the
\* current step are joined: every future not yet joined belongs to the
\* current step, at most one transfer and one compute task are outstanding,
\* and the tasks queued or running never outnumber the pool's workers.
C8_StepJoinedBeforeNextStep ==
    /\ \A f \in futures : f.step = k
    /\ Cardinality({f \in futures : f.fn = "gpu_copy"}) <= 1
    /\ Cardinality({f \in futures : f.fn = "recon"}) <= 1
    /\ Cardinality(Queued) + Cardinality(Running) <= max_workers

C8_Witness ==
    /\ Cardinality(Running) = max_workers
    /\ k >= 3

\* C9 as claimed: the chunk buffers on the device belong to at most two
\* distinct chunk indices.
C9_AtMostTwoChunksOnDevice == Cardinality(DeviceChunks) <= 2

\* C9 as amended: the parity slots hold at most two distinct chunk indices
\* and the buffers on the device, those of an in-flight transfer included,
\* belong to at most three.
C9_AtMostThreeChunksOnDevice ==
    /\ Cardinality(SlotChunks) <= nslots
    /\ Cardinality(DeviceChunks) <= nslots + 1

C9_Witness ==
    /\ Cardinality(DeviceChunks) = nslots + 1
    /\ \E f \in Running : f.fn = "gpu_copy"

\* C10: with nchunk >= 2, steps 0 and 1 issue only a transfer task, every
\* step k with 2 <= k < nchunk issues a transfer and a compute task, and the
\* final step k = nchunk issues only a compute task.
C10_Schedule ==
    nchunk >= 2 =>
        \A s \in 0..nchunk :
            IF StepIssued(s)
            THEN Issued(s) = IF s <= 1 THEN {"submit_copy"}
                             ELSE IF s < nchunk
                                  THEN {"submit_copy", "submit_recon"}
                                  ELSE {"submit_recon"}
            ELSE Issued(s) \subseteq {"submit_copy"}

C10_Witness ==
    /\ pc = "done"
    /\ nchunk >= 4

\* C11: after an interrupt, at whatever point of the run the signal came,
\* no device allocation of the process remains outstanding once the handler
\* has run and its exit has left orthorec.
C11_NothingOutstandingAfterInterrupt ==
    (sig /\ pc = "unwound") => Outstanding = {}

\* C12: from the moment the handler has run, the scheduler issues no task,
\* adds nothing to the accumulator, does not divide it and writes no image,
\* and the process goes on to terminate.
C12_InterruptStopsTheRun ==
    /\ [][sig => /\ trace' = trace
                 /\ obj_gpu' = obj_gpu
                 /\ written' = written
                 /\ k' = k]_vars
    /\ (sig ~> (pc = "unwound"))

C12_Witness ==
    /\ sig /\ pc = "unwound"
    /\ k >= 2 /\ k < nchunk
    /\ \E f \in futures : f.fn = "recon"
    /\ \E f \in futures : f.fn = "gpu_copy"

\* C13: when a task has failed, the failure has surfaced at the join of the
\* task's own step and ended the run: no task of a later step was issued,
\* no image was written, and the memory pool was released.
C13_FailureAbortsAndReleases ==
    (pc = "unwound" /\ ~sig) =>
        /\ \E f \in futures : f.state = "failed" /\ f.step = k
        /\ \A i \in DOMAIN trace : trace[i].step <= k
        /\ written = 0
        /\ mempool.calls > 0
        /\ Cached = {}

\* ====================================== functions applied on their own
\* the pipeline does not run while a function is applied on its own
Parked ==
    /\ N = 1 /\ pchunk = 1 /\ k = 0 /\ pc = "parked"
    /\ data_gpu = [i \in 0..(nslots - 1) |-> NoBuf]
    /\ theta_gpu = [i \in 0..(nslots - 1) |-> NoBuf]
    /\ t2 = NoTask /\ t3 = NoTask /\ futures = {}
    /\ obj_gpu = [num |-> [p \in 0..0 |-> 0], den |-> 1]
    /\ trace = <<>>
    /\ sig = FALSE
    /\ mempool = [calls |-> 0, returned |-> {}]
    /\ written = 0

pipeline == <<loopvars, sig, mempool, written>>

\* ------------------------------------------------------- backprojection
\* lines 14-21.  The composite of one trial center is a grid of cells
\* <<row, column>>; calc.obj gives for each cell the planes written into it
\* (none: the cell keeps the zero of line 17).

\* line 17: cp.zeros([len(center), n, 3*n]): n rows, 3n columns
CompositeCells(n) == (0..(n - 1)) \X (0..(3 * n - 1))

\* a slice [: rows, c0 : c1] of the composite; Python clips it to the array
Region(n, rows, c0, c1) ==
    {cell \in CompositeCells(n) :
        cell[1] < rows /\ cell[2] >= c0 /\ cell[2] < c1}

\* line 18: obj[:, :nz, :n]
RegionX(nz, n) == Region(n, nz, 0, n)

\* the Y plane written over the columns of the X plane
RegionY_ColumnsOfX(nz, n) == Region(n, nz, 0, n)

\* line 19: obj[:, :nz, n:2*n]
RegionY(nz, n) == Region(n, nz, n, 2 * n)

\* line 20: obj[:, :n, 2*n:3*n]
RegionZ(nz, n) == Region(n, n, 2 * n, 3 * n)

WritePlane(obj, region, plane) ==
    [cell \in DOMAIN obj |->
        IF cell \in region THEN obj[cell] \cup {plane} ELSE obj[cell]]

\* lines 16-17; the assignments of lines 18-19 need nz <= n rows
InitBackprojection ==
    /\ Parked
    /\ \E n \in 1..MaxDet : \E nz \in 1..n :
          calc = [fn |-> "backprojection", nz |-> nz, n |-> n, line |-> 18,
                  obj |-> [cell \in CompositeCells(n) |-> {}]]

\* line 18
WriteX ==
    /\ calc.fn = "backprojection" /\ calc.line = 18
    /\ calc' = [calc EXCEPT !.line = 19,
                   !.obj = WritePlane(calc.obj, RegionX(calc.nz, calc.n), "X")]
    /\ UNCHANGED pipeline

\* line 19
WriteY ==
    /\ calc.fn = "backprojection" /\ calc.line = 19
    /\ calc' = [calc EXCEPT !.line = 20,
                   !.obj = WritePlane(calc.obj, RegionY(calc.nz, calc.n), "Y")]
    /\ UNCHANGED pipeline

\* lines 20-21
WriteZ ==
    /\ calc.fn = "backprojection" /\ calc.line = 20
    /\ calc' = [calc EXCEPT !.line = 21,
                   !.obj = WritePlane(calc.obj, RegionZ(calc.nz, calc.n), "Z")]
    /\ UNCHANGED pipeline

NextBackprojection == WriteX \/ WriteY \/ WriteZ

SpecBackprojection == InitBackprojection /\ [][NextBackprojection]_vars

\* backprojection has returned
Backprojected == calc.fn = "backprojection" /\ calc.line = 21

\* the width of the composite
CompositeWidth == Cardinality({cell[2] : cell \in DOMAIN calc.obj})

\* C14 as claimed: the composite has width exactly 3*n and the three plane
\* regions are pairwise non-overlapping and together cover every element.
C14_RegionsPartitionComposite ==
    Backprojected =>
        /\ CompositeWidth = 3 * calc.n
        /\ \A cell \in DOMAIN calc.obj : Cardinality(calc.obj[cell]) = 1

\* C14 as amended: for nz <= n the composite has n rows and width exactly
\* 3*n and the three plane regions are pairwise non-overlapping; the
\* elements they leave uncovered are those of rows nz..n-1 in columns
\* 0..2n-1, so they cover the composite exactly when nz = n.
C14_RegionsDisjointCoverUpToHeight ==
    Backprojected =>
        /\ CompositeWidth = 3 * calc.n
        /\ DOMAIN calc.obj = (0..(calc.n - 1)) \X (0..(3 * calc.n - 1))
        /\ \A cell \in DOMAIN calc.obj :
              /\ Cardinality(calc.obj[cell]) <= 1
              /\ calc.obj[cell] = {} <=>
                    (cell[1] >= calc.nz /\ cell[2] < 2 * calc.n)
              /\ calc.obj[cell] = {"X"} => cell[2] < calc.n
              /\ calc.obj[cell] = {"Z"} => cell[2] >= 2 * calc.n

C14_Witness ==
    /\ Backprojected
    /\ calc.nz < calc.n
    /\ calc.nz > 1

\* ------------------------------------------------------------ fbp_filter
\* lines 26-27 over exact rationals: a number is [num, den] in lowest terms
RECURSIVE Gcd(_, _)
Gcd(a, b) == IF b = 0 THEN a ELSE Gcd(b, a % b)

Rat(a, b) ==
    LET g == Gcd(IF a < 0 THEN -a ELSE a, b)
    IN  [num |-> a \div g, den |-> b \div g]

RMul(x, y) == Rat(x.num * y.num, x.den * y.den)
RSub(x, y) == Rat(x.num * y.den - y.num * x.den, x.den * y.den)
RPow3(x) == RMul(x, RMul(x, x))

\* line 26: cp.fft.rfftfreq(n) is j/n for j = 0..n//2
rfftfreq(n) == [j \in 0..(n \div 2) |-> Rat(j, n)]

\* the window with the square of 1 - 2t in place of its cube
Parzen_Squared(t) == RMul(t, RMul(RSub(Rat(1, 1), RMul(t, Rat(2, 1))),
                                  RSub(Rat(1, 1), RMul(t, Rat(2, 1)))))

\* line 27: t * (1 - t * 2)**3
Parzen(t) == RMul(t, RPow3(RSub(Rat(1, 1), RMul(t, Rat(2, 1)))))

\* data.shape[2] = n
InitFilter ==
    /\ Parked
    /\ \E n \in 1..MaxRow :
          calc = [fn |-> "fbp_filter", n |-> n, line |-> 26, t |-> <<>>,
                  wfilter |-> <<>>]

\* line 26
Rfftfreq ==
    /\ calc.fn = "fbp_filter" /\ calc.line = 26
    /\ calc' = [calc EXCEPT !.line = 27, !.t = rfftfreq(calc.n)]
    /\ UNCHANGED pipeline

\* line 27, one frequency bin after the other
WfilterBin ==
    /\ calc.fn = "fbp_filter" /\ calc.line = 27
    /\ LET j == Len(calc.wfilter)
       IN  /\ j \in DOMAIN calc.t
           /\ calc' = [calc EXCEPT
                          !.wfilter = Append(calc.wfilter, Parzen(calc.t[j]))]
    /\ UNCHANGED pipeline

NextFilter == Rfftfreq \/ WfilterBin

SpecFilter == InitFilter /\ [][NextFilter]_vars

\* the weight of bin j (bins count from 0, sequences from 1)
Weight(j) == calc.wfilter[j + 1]

\* C15 as claimed: the weight of every bin f = j/n is f*(1 - (2f)^2)^3,
\* that is j*(n^2 - 4j^2)^3 / n^7.
C15_WeightIsCubeOfOneMinusSquare ==
    calc.fn = "fbp_filter" =>
        \A j \in 0..(Len(calc.wfilter) - 1) :
            Weight(j) = Rat(j * (calc.n * calc.n - 4 * j * j)
                              * (calc.n * calc.n - 4 * j * j)
                              * (calc.n * calc.n - 4 * j * j),
                            calc.n * calc.n * calc.n * calc.n
                              * calc.n * calc.n * calc.n)

\* C15 as amended: the weight of every bin f = j/n is f*(1 - 2f)^3, that
\* is j*(n - 2j)^3 / n^4.
C15_WeightIsCubeOfOneMinusTwoF ==
    calc.fn = "fbp_filter" =>
        \A j \in 0..(Len(calc.wfilter) - 1) :
            Weight(j) = Rat(j * (calc.n - 2 * j) * (calc.n - 2 * j)
                              * (calc.n - 2 * j),
                            calc.n * calc.n * calc.n * calc.n)

C15_Witness ==
    /\ calc.fn = "fbp_filter"
    /\ calc.n >= 8
    /\ Len(calc.wfilter) = calc.n \div 2 + 1

\* ---------------------------------------------------------------- shapes
\* A shape is the tuple of an array's dimensions.
RECURSIVE Pow2(_)
Pow2(l) == IF l = 0 THEN 1 ELSE 2 * Pow2(l - 1)

\* the accumulator allocated with the unbinned width
AccShape_Unbinned(W, L) == <<ncenter, W, 3 * W>>

\* lines 123-124: [len(center), data.shape[2]//pow(2, bin_level),
\*                 3*data.shape[2]//pow(2, bin_level)]
AccShape(W, L) == <<ncenter, W \div Pow2(L), (3 * W) \div Pow2(L)>>

\* lines 58-59: one pass of binning halves the two last dimensions; the
\* slices ::2 and 1::2 have the same length when the dimension is even
BinOnce(shape) == <<shape[1], shape[2] \div 2, shape[3] \div 2>>

\* lines 16-17: the composite for data of shape [chunk, nz, n]
CompositeShape(shape) == <<ncenter, shape[3], 3 * shape[3]>>

\* a chunk of one projection of a detector H x W, both divisible by 2^L
InitShapes ==
    /\ Parked
    /\ \E L \in 0..MaxLevel : \E u \in 1..MaxUnits : \E v \in 1..u :
          calc = [fn |-> "shapes", W |-> u * Pow2(L), H |-> v * Pow2(L),
                  L |-> L, pass |-> 0,
                  acc |-> AccShape(u * Pow2(L), L),
                  data |-> <<1, v * Pow2(L), u * Pow2(L)>>,
                  obj |-> <<>>]

\* lines 57-59, called by gpu_copy (line 66): one pass of the loop
BinningPass ==
    /\ calc.fn = "shapes" /\ calc.obj = <<>>
    /\ calc.pass < calc.L
    /\ calc' = [calc EXCEPT !.pass = calc.pass + 1, !.data = BinOnce(calc.data)]
    /\ UNCHANGED pipeline

\* lines 14-21, called by recon (line 75) on the binned chunk
ReconShape ==
    /\ calc.fn = "shapes" /\ calc.obj = <<>>
    /\ calc.pass = calc.L
    /\ calc' = [calc EXCEPT !.obj = CompositeShape(calc.data)]
    /\ UNCHANGED pipeline

NextShapes == BinningPass \/ ReconShape

SpecShapes == InitShapes /\ [][NextShapes]_vars

\* C17: for a detector width W divisible by 2^L the accumulator and the
\* composite returned by a compute task both have the shape
\* [numCenters, W/2^L, 3*(W/2^L)], so obj_gpu += is shape-compatible.
C17_AccumulatorAndCompositeSameShape ==
    calc.fn = "shapes" =>
        /\ calc.W % Pow2(calc.L) = 0
        /\ \A w \in 1..calc.W :
              w * Pow2(calc.L) = calc.W =>
                  /\ calc.acc = <<ncenter, w, 3 * w>>
                  /\ calc.obj # <<>> => calc.obj = calc.acc

C17_Witness ==
    /\ calc.fn = "shapes"
    /\ calc.L >= 2
    /\ calc.obj # <<>>
    /\ calc.H < calc.W

\* ================================================= claims on the pipeline
\* the buffers that transfer tasks have been asked for and that are still
\* in sight: in a slot, or in a transfer task not yet joined
CopyFutures == {f \in futures : f.fn = "gpu_copy"}

SlotBufs == {data_gpu[s] : s \in DOMAIN data_gpu} \ {NoBuf}

\* the loop of line 129 is over
LoopOver == pc \in {"divide", "done", "end"}

\* C16: the slices requested by the transfer tasks are non-empty, pairwise
\* disjoint, contiguous in increasing order and cover [0, N); each has
\* length pchunk except the last, which may be shorter but is not empty;
\* there are ceil(N/pchunk) of them.
C16_SlicesPartitionStack ==
    /\ \A b \in SlotBufs \cup {f.data : f \in CopyFutures} :
          /\ 0 <= b.lo /\ b.lo < b.hi /\ b.hi <= N
          /\ b.hi - b.lo = pchunk \/ (b.hi = N /\ b.hi - b.lo < pchunk)
    /\ \A f \in CopyFutures :
          /\ f.data.lo = f.step * pchunk
          /\ f.step = 0 => f.data.lo = 0
          /\ f.step > 0 => \E b \in SlotBufs : b.hi = f.data.lo
    /\ \A a \in SlotBufs, b \in SlotBufs :
          a # b => (a.hi = b.lo \/ b.hi = a.lo)
    /\ LoopOver =>
          /\ \E b \in SlotBufs : b.hi = N
          /\ Cardinality(At("submit_copy")) * pchunk >= N
          /\ (Cardinality(At("submit_copy")) - 1) * pchunk < N
          /\ Cardinality(At("store")) = Cardinality(At("submit_copy"))
          /\ UNION {Projs(SliceOf(trace[i].step, N, pchunk)) :
                       i \in At("submit_copy")} = 0 .. (N - 1)
          /\ \A i \in At("submit_copy"), j \in At("submit_copy") :
                i # j => Projs(SliceOf(trace[i].step, N, pchunk))
                           \cap Projs(SliceOf(trace[j].step, N, pchunk)) = {}

C16_Witness ==
    /\ pc = "done"
    /\ Cardinality(At("store")) >= 3
    /\ N % pchunk # 0

\* C18: data slot i and angle slot i always hold the slices of the same
\* chunk, and every task is given, and every transfer returns, the angles
\* of exactly the projections it is given or returns.
C18_SlotsPaired ==
    /\ \A s \in DOMAIN data_gpu : theta_gpu[s] = data_gpu[s]
    /\ \A f \in futures : f.theta = f.data

C18_Witness ==
    /\ \A s \in DOMAIN data_gpu : data_gpu[s] # NoBuf
    /\ \E f \in Running : f.fn = "recon" /\ f.data # NoBuf
    /\ \E f \in Running : f.fn = "gpu_copy"

\* C19: when every submitted task comes to an end, the loop ends after
\* exactly ceil(N/pchunk)+1 steps (k = 0..ceil(N/pchunk)) with every
\* submitted task joined, and the accumulator is then finalized.
C19_LoopTerminatesJoined ==
    /\ <>(pc = "done")
    /\ [](LoopOver =>
            /\ k * pchunk >= N /\ (k - 1) * pchunk < N
            /\ futures = {}
            /\ Cardinality(At("store")) = Cardinality(At("submit_copy"))
            /\ Cardinality(At("add")) = Cardinality(At("submit_recon")))
    /\ [](pc \in {"done", "end"} => obj_gpu.den = N)

C19_Witness ==
    /\ pc = "done"
    /\ k >= 3
    /\ obj_gpu.den = N
=============================================================================
